---------------------------- MODULE Spec2Model ----------------------------
(***************************************************************************)
(* A model of midjourney.py: the message classifier, the URL-insensitive   *)
(* prompt matcher, the quadrant splitter, the DOM message extractor and    *)
(* the polling loop of MidJourneyAPI.create_image / _wait_for_image.       *)
(*                                                                         *)
(* Text is modelled by TLA+ strings read character by character (Len,      *)
(* SubSeq, \o), so the regular expressions of the source are evaluated on  *)
(* the characters they are evaluated on in the program.                    *)
(***************************************************************************)
EXTENDS Integers, Sequences, FiniteSets, TLC

VARIABLES
    message,          \* classifier harness: the DiscordMessage under classification
    classification,   \* classifier harness: result of _classify_midjourney_message
    mPrompt,          \* matcher harness: the prompt argument
    mContent,         \* matcher harness: the message_content argument
    mFirst,           \* matcher harness: result of the first call on the drawn inputs
    mResult,          \* matcher harness: result of the latest call
    mEdit,            \* matcher harness: the latest URL replacement applied
    imageSize,        \* splitter harness: <<width, height>> of the image
    quadrants,        \* splitter harness: list returned by _split_in_four
    pc,               \* polling: position of the create_image/_wait_for_image flow
    prompt,           \* polling: the prompt argument of create_image
    old_message_ids,  \* polling: ids recorded before the prompt is submitted
    dom,              \* polling: the message list items found by the latest extraction
    messages,         \* polling: the list returned by the latest extract_messages
    accepted,         \* polling: the message whose image is being downloaded
    response,         \* polling: the response of requests.get(download_url)
    files,            \* polling: the files written under ./images
    image_paths,      \* polling: the list returned by _wait_for_image
    error             \* polling: the exception that ended the call

vars == <<message, classification, mPrompt, mContent, mFirst, mResult, mEdit,
          imageSize, quadrants, pc, prompt, old_message_ids, dom, messages,
          accepted, response, files, image_paths, error>>

classifyVars == <<message, classification>>
matchVars    == <<mPrompt, mContent, mFirst, mResult, mEdit>>
splitVars    == <<imageSize, quadrants>>
pollVars     == <<pc, prompt, old_message_ids, dom, messages, accepted,
                  response, files, image_paths, error>>

-----------------------------------------------------------------------------
(* Characters and strings *)

Ch(s, i) == IF i >= 1 /\ i <= Len(s) THEN SubSeq(s, i, i) ELSE ""

HasAt(s, i, lit) ==
    /\ i >= 1
    /\ i + Len(lit) - 1 <= Len(s)
    /\ SubSeq(s, i, i + Len(lit) - 1) = lit

Contains(s, lit) == \E i \in 1..(Len(s) + 1) : HasAt(s, i, lit)

Digits == {"0", "1", "2", "3", "4", "5", "6", "7", "8", "9"}

NonZeroDigits == Digits \ {"0"}

\* the characters \s matches, among those that occur in the inputs
Whitespace == {" ", "\t", "\n"}

\* the characters . does not match
LineBreaks == {"\n"}

UpperToLower ==
    [c \in {"A", "B", "C", "D", "E", "F", "G", "H", "I", "J", "K", "L", "M",
            "N", "O", "P", "Q", "R", "S", "T", "U", "V", "W", "X", "Y", "Z"} |->
        CASE c = "A" -> "a" [] c = "B" -> "b" [] c = "C" -> "c" [] c = "D" -> "d"
          [] c = "E" -> "e" [] c = "F" -> "f" [] c = "G" -> "g" [] c = "H" -> "h"
          [] c = "I" -> "i" [] c = "J" -> "j" [] c = "K" -> "k" [] c = "L" -> "l"
          [] c = "M" -> "m" [] c = "N" -> "n" [] c = "O" -> "o" [] c = "P" -> "p"
          [] c = "Q" -> "q" [] c = "R" -> "r" [] c = "S" -> "s" [] c = "T" -> "t"
          [] c = "U" -> "u" [] c = "V" -> "v" [] c = "W" -> "w" [] c = "X" -> "x"
          [] c = "Y" -> "y" [] c = "Z" -> "z"]

RECURSIVE LowerFrom(_, _)
LowerFrom(s, i) ==
    IF i > Len(s) THEN ""
    ELSE (IF Ch(s, i) \in DOMAIN UpperToLower THEN UpperToLower[Ch(s, i)] ELSE Ch(s, i))
         \o LowerFrom(s, i + 1)

\* str.lower()
Lower(s) == LowerFrom(s, 1)

-----------------------------------------------------------------------------
(* MidJourneyImageType and _classify_midjourney_message *)

MIDJOURNEY_UPSCALE == "MIDJOURNEY_UPSCALE"
MIDJOURNEY_GRID == "MIDJOURNEY_GRID"
None == "None"

\* the pattern r"\(([1-9]?\d)%\)", without the alternative 100
ProgressAt_NoHundred(s, i) ==
    /\ HasAt(s, i, "(")
    /\ \/ Ch(s, i + 1) \in NonZeroDigits /\ Ch(s, i + 2) \in Digits /\ HasAt(s, i + 3, "%)")
       \/ Ch(s, i + 1) \in Digits /\ HasAt(s, i + 2, "%)")

\* progress_regexp = r"\((100|[1-9]?\d)%\)" matched at position i
ProgressAt(s, i) ==
    /\ HasAt(s, i, "(")
    /\ \/ HasAt(s, i + 1, "100%)")
       \/ Ch(s, i + 1) \in NonZeroDigits /\ Ch(s, i + 2) \in Digits /\ HasAt(s, i + 3, "%)")
       \/ Ch(s, i + 1) \in Digits /\ HasAt(s, i + 2, "%)")

\* re.search(progress_regexp, content)
SearchProgress(s) == \E i \in 1..Len(s) : ProgressAt(s, i)

AllDigits(s, from, to) == \A k \in from..to : Ch(s, k) \in Digits

\* image_number_regexp = r"\*\* - Image #(\d+) <@" matched at position i
ImageNumberAt(s, i) ==
    /\ HasAt(s, i, "** - Image #")
    /\ \E n \in 1..Len(s) :
          /\ AllDigits(s, i + 12, i + 12 + n - 1)
          /\ HasAt(s, i + 12 + n, " <@")

\* re.search(image_number_regexp, content)
SearchImageNumber(s) == \E i \in 1..Len(s) : ImageNumberAt(s, i)

\* head, then .+ (one or more characters other than a line break), then " ("
HeadAnyParenAt(s, i, head) ==
    /\ HasAt(s, i, head)
    /\ \E j \in (i + Len(head) + 1)..Len(s) :
          /\ HasAt(s, j, " (")
          /\ \A k \in (i + Len(head))..(j - 1) : Ch(s, k) \notin LineBreaks

\* re.search(r" - @.+ \(", content)
SearchGrid(s) == \E i \in 1..Len(s) : HeadAnyParenAt(s, i, " - @")

\* variations_regexp = r" - Variations by @.+ \("; re.search(variations_regexp, content)
SearchVariations(s) == \E i \in 1..Len(s) : HeadAnyParenAt(s, i, " - Variations by @")

\* the classifier without the tests len(message.images) > 0
Classify_NoImageCheck(msg) ==
    IF SearchProgress(msg.content) THEN None
    ELSE IF SearchImageNumber(msg.content) THEN MIDJOURNEY_UPSCALE
    ELSE IF SearchGrid(msg.content) THEN MIDJOURNEY_GRID
    ELSE IF SearchVariations(msg.content) THEN MIDJOURNEY_GRID
    ELSE None

\* the classifier with the two GRID tests ahead of the UPSCALE test
Classify_GridFirst(msg) ==
    IF SearchProgress(msg.content) THEN None
    ELSE IF Len(msg.images) > 0 /\ SearchGrid(msg.content) THEN MIDJOURNEY_GRID
    ELSE IF Len(msg.images) > 0 /\ SearchVariations(msg.content) THEN MIDJOURNEY_GRID
    ELSE IF Len(msg.images) > 0 /\ SearchImageNumber(msg.content) THEN MIDJOURNEY_UPSCALE
    ELSE None

\* _classify_midjourney_message(message)
Classify(msg) ==
    IF SearchProgress(msg.content) THEN None
    ELSE IF Len(msg.images) > 0 /\ SearchImageNumber(msg.content) THEN MIDJOURNEY_UPSCALE
    ELSE IF Len(msg.images) > 0 /\ SearchGrid(msg.content) THEN MIDJOURNEY_GRID
    ELSE IF Len(msg.images) > 0 /\ SearchVariations(msg.content) THEN MIDJOURNEY_GRID
    ELSE None

-----------------------------------------------------------------------------
(* Classifier harness: messages drawn from bounded sets, classified once *)

\* largest number of image references of a drawn message
MaxImages == 2

ImageUrls ==
    <<"https://cdn.example/attachments/1/grid_ab12.png?ex=65&is=64",
      "https://cdn.example/attachments/2/cat.webp",
      "https://cdn.example/attachments/3/x.png?ex=1">>

DigitOf(k) == <<"0", "1", "2", "3", "4", "5", "6", "7", "8", "9">>[k + 1]

RECURSIVE Decimal(_)
\* the decimal numeral of a natural number
Decimal(n) == IF n < 10 THEN DigitOf(n) ELSE Decimal(n \div 10) \o DigitOf(n % 10)

\* "(N%)" for N in 0..100, and texts that resemble one
ProgressMarkers == {"(" \o Decimal(n) \o "%)" : n \in 0..100}

NearMarkers ==
    {"", "(101%)", "(05%)", "(1000%)", "(%)", "(5 %)", "(-1%)", "(100%", "100%", "(fast)"}

ContentHeads ==
    {"", "a cat", "**a cat** - @alice ", "**a cat** - Variations by @bob ",
     "a cat** - Image #2 <@alice> ", "**a cat** - Image #12 <@alice> - @carol ",
     "**a cat** - Image # <@alice> ", " - @", " - @alice\n"}

ContentTails ==
    {"", " (fast)", " - @dave (relaxed)", "** - Image #3 <@erin>", "\n(fast)"}

ClassifyContents ==
    {h \o m \o t : h \in ContentHeads, m \in ProgressMarkers \cup NearMarkers, t \in ContentTails}

ClassifyImages == {SubSeq(ImageUrls, 1, n) : n \in 0..MaxImages}

InitClassify ==
    /\ message \in [id : {"chat-messages-1"}, content : ClassifyContents, images : ClassifyImages]
    /\ classification = "unset"

\* one call of _classify_midjourney_message on the drawn message
ClassifyMessage ==
    /\ classification = "unset"
    /\ classification' = Classify(message)
    /\ UNCHANGED message

-----------------------------------------------------------------------------
(* _match_mid_journey_prompt_ignoring_urls *)

URL_PLACEHOLDER == "<URL>"

\* the scheme of the pattern r"(<?https:\/\/[^\s]+>?)", without the optional s
SchemeLenAt_HttpsOnly(s, i) ==
    IF HasAt(s, i, "https://") THEN 8 ELSE 0

\* https?:\/\/ matched at position i: its length, or 0
SchemeLenAt(s, i) ==
    IF HasAt(s, i, "https://") THEN 8
    ELSE IF HasAt(s, i, "http://") THEN 7
    ELSE 0

\* https?:\/\/[^\s]+ matches at position i
BareUrlAt(s, i) ==
    /\ SchemeLenAt(s, i) > 0
    /\ i + SchemeLenAt(s, i) <= Len(s)
    /\ Ch(s, i + SchemeLenAt(s, i)) \notin Whitespace

\* url_pattern = r"(<?https?:\/\/[^\s]+>?)" matches at position i
UrlPatternAt(s, i) ==
    \/ Ch(s, i) = "<" /\ BareUrlAt(s, i + 1)
    \/ BareUrlAt(s, i)

RECURSIVE RunEnd(_, _)
\* the last position of the whitespace-free run that holds position i: [^\s]+ is
\* greedy, and the optional ">" after it then has nothing left to match
RunEnd(s, i) ==
    IF i < Len(s) /\ Ch(s, i + 1) \notin Whitespace THEN RunEnd(s, i + 1) ELSE i

RECURSIVE SubUrlsFrom(_, _)
\* re.sub(url_pattern, "<URL>", s): leftmost matches, left to right, not overlapping
SubUrlsFrom(s, i) ==
    IF i > Len(s) THEN ""
    ELSE IF UrlPatternAt(s, i) THEN URL_PLACEHOLDER \o SubUrlsFrom(s, RunEnd(s, i) + 1)
    ELSE Ch(s, i) \o SubUrlsFrom(s, i + 1)

\* re.sub(url_pattern, "<URL>", s.lower())
Normalize(s) == SubUrlsFrom(Lower(s), 1)

\* _match_mid_journey_prompt_ignoring_urls(prompt, message_content)
MatchIgnoringUrls(p, content) == Contains(Normalize(content), Normalize(p))

\* a bool as the harness records it
BoolStr(b) == IF b THEN "True" ELSE "False"

-----------------------------------------------------------------------------
(* Matcher harness: a prompt and a message content drawn from bounded sets, *)
(* matched, then matched again after one URL of either was exchanged        *)

\* largest number of fragments a drawn prompt is made of
MaxFragments == 2

PromptFragments == {"a cat ", "https://x/a", "<http://y>", "<", "HTTP://Z/q b"}

RECURSIVE Concatenations(_)
\* the texts made of at most n fragments
Concatenations(n) ==
    IF n = 0 THEN {""}
    ELSE Concatenations(n - 1) \cup
         {t \o f : t \in Concatenations(n - 1), f \in PromptFragments}

MatchPrompts == Concatenations(MaxFragments) \ {""}

\* what the chat shows for a prompt: the prompt or an unrelated text, decorated
MatchContents(p) ==
    {pre \o body \o suf : pre \in {"", "**", "<"},
                          body \in {p, "a dog https://x/a"},
                          suf \in {"", "** - @alice (fast)"}}

\* the length of the scheme, http:// or https:// in any letter case, at position i, or 0
SchemeLenAnyCaseAt(s, i) ==
    IF i < 1 \/ i > Len(s) THEN 0
    ELSE SchemeLenAt(Lower(SubSeq(s, i, IF i + 7 <= Len(s) THEN i + 7 ELSE Len(s))), 1)

\* s is an http:// or https:// run without whitespace
IsBareUrl(s) ==
    /\ SchemeLenAnyCaseAt(s, 1) > 0
    /\ Len(s) > SchemeLenAnyCaseAt(s, 1)
    /\ RunEnd(s, 1) = Len(s)

\* s is such a run wrapped in angle brackets
IsWrappedUrl(s) ==
    /\ Len(s) > 2
    /\ Ch(s, 1) = "<"
    /\ Ch(s, Len(s)) = ">"
    /\ IsBareUrl(SubSeq(s, 2, Len(s) - 1))

\* the URL substrings of s that start at position i, bare
BareUrlsAt(s, i) ==
    IF SchemeLenAnyCaseAt(s, i) = 0 \/ Ch(s, i + SchemeLenAnyCaseAt(s, i)) \in Whitespace \cup {""}
    THEN {}
    ELSE {<<i, j>> : j \in (i + SchemeLenAnyCaseAt(s, i))..RunEnd(s, i)}

\* the URL substrings of s that start at position i, wrapped in angle brackets
WrappedUrlsAt(s, i) ==
    IF Ch(s, i) # "<" THEN {}
    ELSE {<<i, o[2] + 1>> : o \in {b \in BareUrlsAt(s, i + 1) : Ch(s, b[2] + 1) = ">"}}

\* the URL substrings of s, as <<first, last>> positions
UrlOccurrences(s) == UNION {BareUrlsAt(s, i) \cup WrappedUrlsAt(s, i) : i \in 1..Len(s)}

\* the URLs put in place of one
ReplacementUrls == {"http://m", "HTTPS://Q/r?k=2", "<https://n.io/1>"}

ReplaceAt(s, o, r) == SubSeq(s, 1, o[1] - 1) \o r \o SubSeq(s, o[2] + 1, Len(s))

EditOf(target, s, o, r) ==
    [target  |-> target,
     old     |-> SubSeq(s, o[1], o[2]),
     new     |-> r,
     afterLt |-> Ch(s, o[1] - 1) = "<"]

InitMatch ==
    /\ mPrompt \in MatchPrompts
    /\ mContent \in MatchContents(mPrompt)
    /\ mFirst = "unset"
    /\ mResult = "unset"
    /\ mEdit = <<>>

\* the call on the drawn arguments
MatchDrawn ==
    /\ mFirst = "unset"
    /\ mFirst' = BoolStr(MatchIgnoringUrls(mPrompt, mContent))
    /\ mResult' = mFirst'
    /\ UNCHANGED <<mPrompt, mContent, mEdit>>

\* the call after a URL substring of the prompt was replaced by another URL
MatchAfterPromptUrlReplaced ==
    /\ mFirst # "unset"
    /\ mEdit = <<>>
    /\ \E o \in UrlOccurrences(mPrompt), r \in ReplacementUrls :
          /\ mPrompt' = ReplaceAt(mPrompt, o, r)
          /\ mEdit' = <<EditOf("prompt", mPrompt, o, r)>>
          /\ mResult' = BoolStr(MatchIgnoringUrls(mPrompt', mContent))
    /\ UNCHANGED <<mContent, mFirst>>

\* the call after a URL substring of the message content was replaced by another URL
MatchAfterContentUrlReplaced ==
    /\ mFirst # "unset"
    /\ mEdit = <<>>
    /\ \E o \in UrlOccurrences(mContent), r \in ReplacementUrls :
          /\ mContent' = ReplaceAt(mContent, o, r)
          /\ mEdit' = <<EditOf("content", mContent, o, r)>>
          /\ mResult' = BoolStr(MatchIgnoringUrls(mPrompt, mContent'))
    /\ UNCHANGED <<mPrompt, mFirst>>

-----------------------------------------------------------------------------
(* _split_in_four: an image is its size <<width, height>>, a crop its box *)

\* math.ceil(n / 2)
FloorHalf_Ceiling(n) == (n + 1) \div 2

\* math.floor(n / 2)
FloorHalf(n) == n \div 2

\* the box <<left, upper, right, lower>> given to image.crop
Box(left, upper, right, lower) == <<left, upper, right, lower>>

\* the size of the image image.crop(box) returns
CropSize(box) == <<box[3] - box[1], box[4] - box[2]>>

\* _split_in_four(image), as the list of the four crop boxes
SplitInFour(size) ==
    LET width  == size[1]
        height == size[2]
    IN  <<Box(0, 0, FloorHalf(width), FloorHalf(height)),
          Box(FloorHalf(width), 0, width, FloorHalf(height)),
          Box(0, FloorHalf(height), FloorHalf(width), height),
          Box(FloorHalf(width), FloorHalf(height), width, height)>>

\* largest width and height of a drawn image
MaxDim == 10

InitSplit ==
    /\ imageSize \in (0..MaxDim) \X (0..MaxDim)
    /\ quadrants = <<>>

\* one call of _split_in_four on the drawn image
SplitImage ==
    /\ quadrants = <<>>
    /\ quadrants' = SplitInFour(imageSize)
    /\ UNCHANGED imageSize

-----------------------------------------------------------------------------
(* DiscordMessage, _get_image_url and MidJourneyAPI.extract_messages *)

DiscordMessage(id, content, images) == [id |-> id, content |-> content, images |-> images]

\* A message list item of the page, by what each read of it gives:
\*   idRead       "ok", or the exception message.get_attribute("id") raises
\*   id           the id attribute, None when the item has none
\*   contentRead  "ok", or the exception finding the content div or reading its text raises
\*   content      the text of the content div
\*   linkRead     "ok", "absent" when find_elements finds no original link, or the
\*                exception the lookup or the read of href raises
\*   href         the href attribute of the link, None when it has none
DomNode(idRead, id, contentRead, content, linkRead, href) ==
    [idRead |-> idRead, id |-> id, contentRead |-> contentRead, content |-> content,
     linkRead |-> linkRead, href |-> href]

\* the exceptions the try around get_attribute("id") catches
CaughtAtIdRead == {"AttributeError", "StaleElementReferenceException", "NoSuchElementException"}

\* _get_image_url(message), when its reads do not raise
GetImageUrl(node) ==
    IF node.linkRead = "absent" THEN ""
    ELSE IF node.href = None THEN ""
    ELSE node.href

\* how a call of extract_messages ends: it returns a list, or an exception leaves it
Returned(msgs) == [raised |-> <<>>, messages |-> msgs]
Raised(exception) == [raised |-> <<exception>>, messages |-> <<>>]

RECURSIVE ExtractFrom_KeepNoImage(_, _, _)
\* the for loop without the test "if not image_url: continue"
ExtractFrom_KeepNoImage(nodes, k, extracted) ==
    IF k > Len(nodes) THEN Returned(extracted)
    ELSE LET node == nodes[k] IN
         IF node.idRead \in CaughtAtIdRead THEN ExtractFrom_KeepNoImage(nodes, k + 1, extracted)
         ELSE IF node.idRead # "ok" THEN Raised(node.idRead)
         ELSE IF node.id = None THEN ExtractFrom_KeepNoImage(nodes, k + 1, extracted)
         ELSE IF node.contentRead # "ok" THEN Raised(node.contentRead)
         ELSE IF node.linkRead \notin {"ok", "absent"} THEN Raised(node.linkRead)
         ELSE ExtractFrom_KeepNoImage(nodes, k + 1,
                  Append(extracted,
                         DiscordMessage(node.id, node.content,
                                        IF GetImageUrl(node) = "" THEN <<>>
                                        ELSE <<GetImageUrl(node)>>)))

RECURSIVE ExtractFrom(_, _, _)
\* the for loop of extract_messages from the k-th item on
ExtractFrom(nodes, k, extracted) ==
    IF k > Len(nodes) THEN Returned(extracted)
    ELSE LET node == nodes[k] IN
         IF node.idRead \in CaughtAtIdRead THEN ExtractFrom(nodes, k + 1, extracted)
         ELSE IF node.idRead # "ok" THEN Raised(node.idRead)
         ELSE IF node.id = None THEN ExtractFrom(nodes, k + 1, extracted)
         ELSE IF node.contentRead # "ok" THEN Raised(node.contentRead)
         ELSE IF node.linkRead \notin {"ok", "absent"} THEN Raised(node.linkRead)
         ELSE IF GetImageUrl(node) = "" THEN ExtractFrom(nodes, k + 1, extracted)
         ELSE ExtractFrom(nodes, k + 1,
                  Append(extracted,
                         DiscordMessage(node.id, node.content, <<GetImageUrl(node)>>)))

\* self.extract_messages() on a page whose message list items are nodes
ExtractMessages(nodes) == ExtractFrom(nodes, 1, <<>>)

-----------------------------------------------------------------------------
(* The page, the download and the flow of create_image / _wait_for_image *)

\* largest number of message list items the page shows at one extraction
MaxDomNodes == 2

\* largest number of message list items the page shows before the prompt is sent
MaxOldNodes == 1

Prompts == {"a cat", "A dog https://x/a"}

GridUrl == "https://cdn.example/attachments/1/grid_ab12.png?ex=65&is=64"
OtherUrl == "https://cdn.example/attachments/2/cat.webp"

CatGrid == "**a cat** - @alice (fast)"
CatProgress == "**a cat** - @alice (42%) (fast)"
CatUpscale == "**a cat** - Image #2 <@alice>"
DogGrid == "**a dog <https://s.mj.run/k>** - Variations by @bob (relaxed)"

Healthy(id, content, href) == DomNode("ok", id, "ok", content, "ok", href)

HealthyNodes ==
    {Healthy("chat-messages-1", CatGrid, GridUrl),
     Healthy("chat-messages-1", CatGrid, OtherUrl),
     Healthy("chat-messages-2", CatGrid, GridUrl),
     Healthy("chat-messages-2", DogGrid, OtherUrl),
     Healthy("chat-messages-1", CatProgress, GridUrl),
     Healthy("chat-messages-2", CatUpscale, OtherUrl)}

\* items of which one read fails or finds nothing
ImperfectNodes ==
    {DomNode("StaleElementReferenceException", None, "ok", CatGrid, "ok", GridUrl),
     DomNode("ok", None, "ok", CatGrid, "ok", GridUrl),
     DomNode("ok", "chat-messages-2", "NoSuchElementException", "", "ok", GridUrl),
     DomNode("ok", "chat-messages-2", "StaleElementReferenceException", "", "ok", GridUrl),
     DomNode("ok", "chat-messages-2", "ok", CatGrid, "StaleElementReferenceException", None),
     DomNode("ok", "chat-messages-2", "ok", CatGrid, "absent", None),
     DomNode("ok", "chat-messages-2", "ok", CatGrid, "ok", None),
     DomNode("ok", "chat-messages-2", "ok", CatGrid, "ok", "")}

DomNodes == HealthyNodes \cup ImperfectNodes

RECURSIVE DomsUpTo(_)
\* the pages of at most n message list items
DomsUpTo(n) ==
    IF n = 0 THEN {<<>>}
    ELSE DomsUpTo(n - 1) \cup {Append(d, node) : d \in DomsUpTo(n - 1), node \in DomNodes}

\* the pages an extraction of the polling loop may find
Pages == DomsUpTo(MaxDomNodes)

\* the pages create_image may find before it sends the prompt
OldPages == DomsUpTo(MaxOldNodes)

\* The calls of the matcher and of the classifier on the texts and messages of the
\* pages above, evaluated once
PageMessages ==
    {DiscordMessage(n.id, n.content, images) :
        n \in DomNodes, images \in {<<>>, <<GridUrl>>, <<OtherUrl>>}}

MatchOnPage == [p \in Prompts, c \in {n.content : n \in DomNodes} |-> MatchIgnoringUrls(p, c)]

ClassifyOnPage == [m \in PageMessages |-> Classify(m)]

Matches(p, content) ==
    IF <<p, content>> \in DOMAIN MatchOnPage THEN MatchOnPage[p, content]
    ELSE MatchIgnoringUrls(p, content)

ClassOf(msg) ==
    IF msg \in DOMAIN ClassifyOnPage THEN ClassifyOnPage[msg] ELSE Classify(msg)

\* MidJourneyAPI._wait_for_image: the tests of its for loop, the file names

IsOld(id, old) == \E k \in 1..Len(old) : old[k] = id

\* the outer if: prompt match, new id, message.images not empty
Qualifies(msg, old, p) ==
    /\ Matches(p, msg.content)
    /\ ~IsOld(msg.id, old)
    /\ Len(msg.images) > 0

\* the tests without "message.id not in old_message_ids"
Accepts_IgnoringOldIds(msg, old, p) ==
    /\ Matches(p, msg.content)
    /\ Len(msg.images) > 0
    /\ ClassOf(msg) # None
    /\ Len(msg.images) = 1
    /\ ClassOf(msg) = MIDJOURNEY_GRID

\* the message reaches the download: the outer if, a classification, and the inner if
Accepts(msg, old, p) ==
    /\ Qualifies(msg, old, p)
    /\ ClassOf(msg) # None
    /\ Len(msg.images) = 1
    /\ ClassOf(msg) = MIDJOURNEY_GRID
    /\ Matches(p, msg.content)

\* the positions of the messages the for loop would download
AcceptedPositions(msgs, old, p) == {k \in 1..Len(msgs) : Accepts(msgs[k], old, p)}

Min(S) == CHOOSE k \in S : \A j \in S : k <= j

RECURSIVE AfterLast(_, _, _)
\* s.split(sep)[-1], from position i down
AfterLast(s, sep, i) ==
    IF i < 1 THEN s
    ELSE IF Ch(s, i) = sep THEN SubSeq(s, i + 1, Len(s))
    ELSE AfterLast(s, sep, i - 1)

RECURSIVE BeforeFirst(_, _, _)
\* s.split(sep)[0], from position i up
BeforeFirst(s, sep, i) ==
    IF i > Len(s) THEN s
    ELSE IF Ch(s, i) = sep THEN SubSeq(s, 1, i - 1)
    ELSE BeforeFirst(s, sep, i + 1)

\* file_name = download_url.split("/")[-1]
FileName_KeepQuery(download_url) == AfterLast(download_url, "/", Len(download_url))

\* file_name = download_url.split("/")[-1].split("?")[0]
FileName(download_url) ==
    BeforeFirst(AfterLast(download_url, "/", Len(download_url)), "?", 1)

\* full_path = f"./images/{file_name}-{i}.png"
FullPath(file_name, i) == "./images/" \o file_name \o "-" \o Decimal(i) \o ".png"

\* the files the enumerate loop saves: one per crop, in the order of the list
SavedFiles(file_name, crops) ==
    [k \in 1..Len(crops) |-> [path |-> FullPath(file_name, k - 1), size |-> CropSize(crops[k])]]

\* what requests.get gives: an exception, or a response with a status and a body
\* that Image.open can or cannot decode into an image of some size
Responses ==
    {[raised |-> <<"ConnectionError">>, status_code |-> 0, decodes |-> FALSE, size |-> <<0, 0>>]}
    \cup [raised : {<<>>}, status_code : {200, 404}, decodes : {FALSE}, size : {<<0, 0>>}]
    \cup [raised : {<<>>}, status_code : {200, 404}, decodes : {TRUE}, size : {<<4, 4>>, <<5, 3>>}]

IsSuccess(resp) == resp.raised = <<>> /\ resp.status_code = 200

InitPoll ==
    /\ pc = "create_image"
    /\ prompt \in Prompts
    /\ old_message_ids = <<>>
    /\ dom = <<>>
    /\ messages = <<>>
    /\ accepted = <<>>
    /\ response = <<>>
    /\ files = <<>>
    /\ image_paths = <<>>
    /\ error = <<>>

\* create_image up to the call of _wait_for_image: the ids on the page are recorded
\* (the list of messages itself is not kept), the prompt is sent
RecordOldIds ==
    /\ pc = "create_image"
    /\ \E d \in OldPages :
          LET r == ExtractMessages(d) IN
          IF r.raised # <<>>
          THEN /\ pc' = "raised"
               /\ error' = <<[exception |-> r.raised[1], at |-> "create_image"]>>
               /\ dom' = d
               /\ UNCHANGED old_message_ids
          ELSE /\ pc' = "extract"
               /\ old_message_ids' = [k \in 1..Len(r.messages) |-> r.messages[k].id]
               /\ UNCHANGED <<dom, error>>
    /\ UNCHANGED <<prompt, messages, accepted, response, files, image_paths>>

\* messages = self.extract_messages() at the top of the while loop, on whatever the
\* page shows then
Extract ==
    /\ pc = "extract"
    /\ dom' \in Pages
    /\ LET r == ExtractMessages(dom') IN
       IF r.raised # <<>>
       THEN /\ pc' = "raised"
            /\ error' = <<[exception |-> r.raised[1], at |-> "extract_messages"]>>
            /\ messages' = <<>>
       ELSE /\ pc' = "scan"
            /\ messages' = r.messages
            /\ UNCHANGED error
    /\ UNCHANGED <<prompt, old_message_ids, accepted, response, files, image_paths>>

\* the for loop over messages: it leaves for the download at the first message it
\* accepts, and falls through to the sleep when it accepts none; the list it scanned
\* is then not read again, the next extraction replaces it
Scan ==
    /\ pc = "scan"
    /\ LET hits == AcceptedPositions(messages, old_message_ids, prompt) IN
       IF hits = {}
       THEN /\ pc' = "sleep"
            /\ dom' = <<>>
            /\ messages' = <<>>
            /\ UNCHANGED accepted
       ELSE /\ pc' = "download"
            /\ accepted' = <<messages[Min(hits)]>>
            /\ UNCHANGED <<dom, messages>>
    /\ UNCHANGED <<prompt, old_message_ids, response, files, image_paths, error>>

\* requests.get(download_url), Image.open, _split_in_four, the saves and the return
Download ==
    /\ pc = "download"
    /\ \E resp \in Responses :
          LET download_url == accepted[1].images[1]
              file_name    == FileName(download_url)
              saved        == SavedFiles(file_name, SplitInFour(resp.size))
          IN
          /\ response' = <<[url |-> download_url, reply |-> resp]>>
          /\ IF resp.raised # <<>>
             THEN /\ pc' = "raised"
                  /\ error' = <<[exception |-> resp.raised[1], at |-> "requests.get"]>>
                  /\ UNCHANGED <<files, image_paths>>
             ELSE IF ~resp.decodes
             THEN /\ pc' = "raised"
                  /\ error' = <<[exception |-> "UnidentifiedImageError", at |-> "Image.open"]>>
                  /\ UNCHANGED <<files, image_paths>>
             ELSE /\ pc' = "returned"
                  /\ files' = saved
                  /\ image_paths' = [k \in 1..Len(saved) |-> saved[k].path]
                  /\ UNCHANGED error
    /\ UNCHANGED <<prompt, old_message_ids, dom, messages, accepted>>

\* time.sleep(1) at the bottom of the while loop
Sleep ==
    /\ pc = "sleep"
    /\ pc' = "extract"
    /\ UNCHANGED <<prompt, old_message_ids, dom, messages, accepted, response, files,
                   image_paths, error>>

-----------------------------------------------------------------------------
(* Specifications *)

IdleClassify == message = <<>> /\ classification = "unset"
IdleMatch == mPrompt = "" /\ mContent = "" /\ mFirst = "unset" /\ mResult = "unset" /\ mEdit = <<>>
IdleSplit == imageSize = <<0, 0>> /\ quadrants = <<>>
IdlePoll ==
    /\ pc = "idle" /\ prompt = "" /\ old_message_ids = <<>> /\ dom = <<>> /\ messages = <<>>
    /\ accepted = <<>> /\ response = <<>> /\ files = <<>> /\ image_paths = <<>> /\ error = <<>>

InitC == InitClassify /\ IdleMatch /\ IdleSplit /\ IdlePoll
NextC == ClassifyMessage /\ UNCHANGED <<matchVars, splitVars, pollVars>>
SpecClassify == InitC /\ [][NextC]_vars

InitM == InitMatch /\ IdleClassify /\ IdleSplit /\ IdlePoll
NextM ==
    \/ MatchDrawn /\ UNCHANGED <<classifyVars, splitVars, pollVars>>
    \/ MatchAfterPromptUrlReplaced /\ UNCHANGED <<classifyVars, splitVars, pollVars>>
    \/ MatchAfterContentUrlReplaced /\ UNCHANGED <<classifyVars, splitVars, pollVars>>
SpecMatch == InitM /\ [][NextM]_vars

InitS == InitSplit /\ IdleClassify /\ IdleMatch /\ IdlePoll
NextS == SplitImage /\ UNCHANGED <<classifyVars, matchVars, pollVars>>
SpecSplit == InitS /\ [][NextS]_vars

Init == InitPoll /\ IdleClassify /\ IdleMatch /\ IdleSplit
Next ==
    \/ RecordOldIds /\ UNCHANGED <<classifyVars, matchVars, splitVars>>
    \/ Extract /\ UNCHANGED <<classifyVars, matchVars, splitVars>>
    \/ Scan /\ UNCHANGED <<classifyVars, matchVars, splitVars>>
    \/ Download /\ UNCHANGED <<classifyVars, matchVars, splitVars>>
    \/ Sleep /\ UNCHANGED <<classifyVars, matchVars, splitVars>>
Spec == Init /\ [][Next]_vars

\* the flow is one thread: whichever step it is at, it takes
SpecLive == Spec /\ WF_vars(Next)

-----------------------------------------------------------------------------
(* Properties *)

\* the content holds "(N%)" for some integer N of 0..100, written in decimal
MarkerLengths == {Len(m) : m \in ProgressMarkers}

HasProgressMarker(content) ==
    \E i \in 1..Len(content), n \in MarkerLengths :
        /\ i + n - 1 <= Len(content)
        /\ SubSeq(content, i, i + n - 1) \in ProgressMarkers

\* the message was on the page before the prompt was sent
PreExisting(msg) == \E k \in 1..Len(old_message_ids) : old_message_ids[k] = msg.id

\* C1: _wait_for_image reaches the download, and so a return, only for a message of
\* the snapshot just extracted whose content matches the prompt, whose id was not
\* recorded before the prompt was sent, which is classified GRID and which has exactly
\* one image; the URL fetched is that image. A pre-existing, in-progress, UPSCALE or
\* non-matching message never gets there.
C1_ReturnOnlyForNewMatchingGrid ==
    (pc \in {"download", "returned"} \/ response # <<>>) =>
        /\ accepted # <<>>
        /\ \E k \in 1..Len(messages) : messages[k] = accepted[1]
        /\ Matches(prompt, accepted[1].content)
        /\ ~PreExisting(accepted[1])
        /\ ~HasProgressMarker(accepted[1].content)
        /\ ClassOf(accepted[1]) = MIDJOURNEY_GRID
        /\ Len(accepted[1].images) = 1
        /\ response # <<>> => response[1].url = accepted[1].images[1]
        /\ pc = "returned" => response # <<>>

\* the call returned for the second message of a snapshot whose first message was on
\* the page before the prompt was sent
C1_Witness ==
    /\ pc = "returned"
    /\ Len(messages) >= 2
    /\ PreExisting(messages[1])
    /\ accepted = <<messages[2]>>

\* C2: a message whose content holds "(N%)", N in 0..100, is classified none, whatever
\* its images and the rest of its content.
C2_ProgressMarkerGivesNone ==
    (classification # "unset" /\ HasProgressMarker(message.content)) => classification = None

\* "**a cat** - @alice (100%)" with one image, which the GRID pattern matches, is
\* classified none
C2_Witness ==
    /\ message.content = "**a cat** - @alice (100%)"
    /\ Len(message.images) = 1
    /\ SearchGrid(message.content)
    /\ classification = None

\* C3: a message with no image is classified none, whatever its content.
C3_NoImageGivesNone ==
    (classification # "unset" /\ Len(message.images) = 0) => classification = None

\* a message without image whose content is a finished grid's is classified none
C3_Witness ==
    /\ Len(message.images) = 0
    /\ message.content = "**a cat** - @alice  (fast)"
    /\ classification = None

\* the replacement of the harness keeps the result of the matcher, by the amended claim:
\* it is not one that changes the bracketing of a URL that stands right after a "<"
KeepsBracketing(edit) ==
    ~(edit.afterLt /\ IsWrappedUrl(edit.old) # IsWrappedUrl(edit.new))

\* C4 as stated: the result of the matcher does not change when any URL substring of
\* the prompt or of the content is replaced by any other URL, bare or in angle brackets.
C4_AnyUrlReplacementKeepsResult == mResult = mFirst

\* C4 as amended: the result of the matcher does not change when a URL substring of the
\* prompt or of the content is replaced by another URL, bare or in angle brackets,
\* unless the substring stands right after a "<" and the replacement changes whether it
\* is wrapped in angle brackets.
C4_UrlReplacementKeepsResult ==
    (mEdit # <<>> /\ KeepsBracketing(mEdit[1])) => mResult = mFirst

\* the prompt holds a bare URL, the content showed it, and the match still holds after
\* the URL of the content was rewritten to a different URL in angle brackets
C4_Witness ==
    /\ mPrompt = "a cat https://x/a"
    /\ mEdit # <<>>
    /\ mEdit[1].target = "content"
    /\ mEdit[1].old = "https://x/a"
    /\ mEdit[1].new = "<https://n.io/1>"
    /\ ~mEdit[1].afterLt
    /\ mFirst = "True"
    /\ mResult = "True"

\* the pixels of a box
Pixels(box) == {px \in (0..MaxDim + 1) \X (0..MaxDim + 1) :
                   box[1] <= px[1] /\ px[1] < box[3] /\ box[2] <= px[2] /\ px[2] < box[4]}

\* C5: _split_in_four returns four rectangles, top-left, top-right, bottom-left,
\* bottom-right, of sizes (floor(W/2), floor(H/2)), (W - floor(W/2), floor(H/2)),
\* (floor(W/2), H - floor(H/2)), (W - floor(W/2), H - floor(H/2)); they are pairwise
\* disjoint, cover the image, and their pixel counts sum to W*H.
C5_FourQuadrants ==
    quadrants # <<>> =>
        LET W  == imageSize[1]
            H  == imageSize[2]
            hw == CHOOSE n \in 0..W : 2 * n <= W /\ W < 2 * n + 2
            hh == CHOOSE n \in 0..H : 2 * n <= H /\ H < 2 * n + 2
        IN  /\ Len(quadrants) = 4
            /\ quadrants[1][1] = 0 /\ quadrants[1][2] = 0
            /\ quadrants[2][3] = W /\ quadrants[2][2] = 0
            /\ quadrants[3][1] = 0 /\ quadrants[3][4] = H
            /\ quadrants[4][3] = W /\ quadrants[4][4] = H
            /\ CropSize(quadrants[1]) = <<hw, hh>>
            /\ CropSize(quadrants[2]) = <<W - hw, hh>>
            /\ CropSize(quadrants[3]) = <<hw, H - hh>>
            /\ CropSize(quadrants[4]) = <<W - hw, H - hh>>
            /\ \A i, j \in 1..4 : i # j => Pixels(quadrants[i]) \cap Pixels(quadrants[j]) = {}
            /\ UNION {Pixels(quadrants[i]) : i \in 1..4} = (0..W - 1) \X (0..H - 1)
            /\ Cardinality(Pixels(quadrants[1])) + Cardinality(Pixels(quadrants[2]))
               + Cardinality(Pixels(quadrants[3])) + Cardinality(Pixels(quadrants[4])) = W * H

\* an image of odd width and odd height was split: 5x7 gives 2x3, 3x3, 2x4, 3x4
C5_Witness ==
    /\ imageSize = <<5, 7>>
    /\ quadrants # <<>>
    /\ CropSize(quadrants[1]) = <<2, 3>>
    /\ CropSize(quadrants[4]) = <<3, 4>>

\* the item has an image link with a non-empty href
HasImageLink(node) == node.linkRead = "ok" /\ node.href \notin {None, ""}

\* one of the reads of the item raises
ReadFails(node) ==
    \/ node.idRead # "ok"
    \/ node.contentRead # "ok"
    \/ node.linkRead \notin {"ok", "absent"}

\* the items of the page that extract_messages is to return as messages when the
\* items whose reads fail are skipped
RECURSIVE ReadableMessages(_, _)
ReadableMessages(nodes, k) ==
    IF k > Len(nodes) THEN <<>>
    ELSE IF ReadFails(nodes[k]) \/ nodes[k].id = None \/ ~HasImageLink(nodes[k])
         THEN ReadableMessages(nodes, k + 1)
         ELSE <<DiscordMessage(nodes[k].id, nodes[k].content, <<nodes[k].href>>)>>
              \o ReadableMessages(nodes, k + 1)

\* C6: when a read of one message list item fails during an extraction of the polling
\* loop (id, text content or image link), the extraction returns the other messages
\* and the loop goes on: the call does not end with the exception.
C6_FailedReadSkipsOnlyThatMessage ==
    (\E k \in 1..Len(dom) : ReadFails(dom[k])) =>
        /\ ~(pc = "raised" /\ error[1].at = "extract_messages")
        /\ pc = "scan" => messages = ReadableMessages(dom, 1)

\* C7: when the response to the fetch of the accepted image is not a success, the call
\* ends with an exception: no path is returned and no quadrant file is written.
C7_FailedDownloadIsFatal ==
    (response # <<>> /\ ~IsSuccess(response[1].reply)) =>
        /\ pc = "raised"
        /\ files = <<>>
        /\ image_paths = <<>>

\* the message is one the claim calls acceptable: new id, prompt match, GRID, one image
Acceptable(msg) ==
    /\ ~PreExisting(msg)
    /\ Matches(prompt, msg.content)
    /\ ClassOf(msg) = MIDJOURNEY_GRID
    /\ Len(msg.images) = 1

HasAcceptable(msgs) == \E k \in 1..Len(msgs) : Acceptable(msgs[k])

\* the base name of the image, without its query string
BaseName(url) ==
    CASE url = GridUrl -> "grid_ab12.png"
      [] url = OtherUrl -> "cat.webp"

QuadrantPaths(url) ==
    <<"./images/" \o BaseName(url) \o "-0.png", "./images/" \o BaseName(url) \o "-1.png",
      "./images/" \o BaseName(url) \o "-2.png", "./images/" \o BaseName(url) \o "-3.png">>

\* from here on every extraction returns a snapshot that holds an acceptable message,
\* and the download succeeds
Settled ==
    /\ pc # "raised"
    /\ pc = "scan" => HasAcceptable(messages)
    /\ response # <<>> => IsSuccess(response[1].reply)

\* C8: the loop has no timeout: after a snapshot without acceptable message it sleeps
\* and extracts again, and it returns only after a snapshot with one; if from some point
\* on every snapshot holds an acceptable message and the download succeeds, the call
\* eventually returns; it returns four paths, in quadrant order 0..3, built from the
\* base name of the image without its query string.
C8_PollsUntilAcceptedThenReturnsFourPaths ==
    /\ [][(pc = "scan" /\ ~HasAcceptable(messages)) => pc' = "sleep"]_vars
    /\ [][pc = "sleep" => pc' = "extract"]_vars
    /\ [][pc' = "returned" => (pc = "download" /\ HasAcceptable(messages))]_vars
    /\ [](pc = "returned" => image_paths = QuadrantPaths(accepted[1].images[1]))
    /\ (<>[]Settled) => <>(pc = "returned")

\* the call returned the four paths of an image whose URL has a query string
C8_Witness ==
    /\ pc = "returned"
    /\ accepted[1].images[1] = "https://cdn.example/attachments/1/grid_ab12.png?ex=65&is=64"
    /\ image_paths = <<"./images/grid_ab12.png-0.png", "./images/grid_ab12.png-1.png",
                       "./images/grid_ab12.png-2.png", "./images/grid_ab12.png-3.png">>
    /\ [k \in 1..4 |-> files[k].path] = image_paths

\* C9: for a message with an image and no progress marker, content that matches the
\* "Image #<digits>" pattern is classified UPSCALE even when it also matches a GRID
\* pattern; content that matches a GRID pattern only is classified GRID; content that
\* matches none of the three patterns is classified none.
C9_PrecedenceOfPatterns ==
    (classification # "unset" /\ Len(message.images) > 0 /\ ~HasProgressMarker(message.content)) =>
        LET upscale == SearchImageNumber(message.content)
            grid    == SearchGrid(message.content) \/ SearchVariations(message.content)
        IN  /\ upscale => classification = MIDJOURNEY_UPSCALE
            /\ (grid /\ ~upscale) => classification = MIDJOURNEY_GRID
            /\ (~grid /\ ~upscale) => classification = None

\* a message with an image whose content matches the "Image #" pattern and the
\* "- @<user> (" pattern is classified UPSCALE
C9_Witness ==
    /\ message.content = "**a cat** - Image #12 <@alice> - @carol  (fast)"
    /\ Len(message.images) = 1
    /\ SearchImageNumber(message.content)
    /\ SearchGrid(message.content)
    /\ classification = MIDJOURNEY_UPSCALE

\* C10: every message extract_messages returns in the polling loop has an id and exactly
\* one image reference, a non-empty string, taken from an item of the page that has an
\* image link; so the tests "has an image" and "has exactly one image" of the loop hold
\* for every message it examines and do not decide which message is accepted.
C10_ExtractedMessagesHaveOneImage ==
    /\ \A k \in 1..Len(messages) :
          LET msg == messages[k] IN
          /\ msg.id # None
          /\ Len(msg.images) = 1
          /\ msg.images[1] \notin {None, ""}
          /\ \E j \in 1..Len(dom) :
                /\ HasImageLink(dom[j])
                /\ dom[j].id = msg.id
                /\ dom[j].content = msg.content
                /\ dom[j].href = msg.images[1]
          /\ Accepts(msg, old_message_ids, prompt) <=>
                (Matches(prompt, msg.content) /\ ~PreExisting(msg)
                 /\ ClassOf(msg) = MIDJOURNEY_GRID)
    /\ Len(messages) <= Cardinality({j \in 1..Len(dom) : HasImageLink(dom[j])})

\* an extraction returned the message of one item and left out an item without image link
C10_Witness ==
    /\ pc = "scan"
    /\ Len(dom) = 2
    /\ ~HasImageLink(dom[1])
    /\ ~ReadFails(dom[1])
    /\ dom[1].id # None
    /\ Len(messages) = 1

=============================================================================
